---- MODULE Spec2Model ----
(***************************************************************************)
(* plan_route of journey_planner/computation/route_planning.py, with the   *)
(* three Google Maps wrappers of integrations/google_maps.py and the       *)
(* Nominatim geocoder as its collaborators.  One action per statement (or  *)
(* group of statements without a call between them) of plan_route; the     *)
(* answers of the remote services are the inputs, drawn from small sets.   *)
(***************************************************************************)
EXTENDS Integers, Sequences, FiniteSets, TLC

\* ------------------------------------------------------------------ bounds
\* requested duration (seconds) ranges over -1..MaxDuration
MaxDuration == 2
\* a route / distance-matrix duration ranges over 0..MaxCost
MaxCost == 2
\* a nearby search returns at most MaxPlaces places
MaxPlaces == 2
\* the count of nearby searches saturates at MaxCount
MaxCount == 2

\* ------------------------------------------------------- program constants
\* route_planning.py:142  len(intermediate_latlongs) == 8
MaxWaypoints == 8
\* constants.py:27
CONVERSION_FACTOR_MINUTES_TO_METERS == 750

\* ------------------------------------------------------------------ inputs
\* the three strings main() hands to plan_route(start, end, duration, API_KEY)
start == "A"
end == "B"
API_KEY == "K"

\* formatted addresses the Places API can return
Addresses == {"p1", "p2"}

Durations == (0 - 1)..MaxDuration
Costs == 0..MaxCost

\* ---------------------------------------------------------------- geocoder
\* location_data of geolocator.geocode: None, or an object with a latitude
\* and a longitude
None == <<>>

LatLongOf ==
    ("A" :> <<1, 0>>) @@ ("B" :> <<2, 0>>) @@ ("K" :> <<3, 0>>)
    @@ ("p1" :> <<4, 0>>) @@ ("p2" :> <<5, 0>>)

\* what Nominatim may answer for a location string
geocode(location) == {None, LatLongOf[location]}

\* -------------------------------------------------------------- exceptions
NoException == [type |-> "None", msg |-> "", line |-> 0]
ValueError(msg, line) == [type |-> "ValueError", msg |-> msg, line |-> line]
KeyError(key, line) == [type |-> "KeyError", msg |-> key, line |-> line]

MsgLocationNotFound == "Location not found."
MsgUnreachable == "Ending location not reachable within the specified duration."
MsgNoNearby == "No nearby places found within the specified duration."
MsgEmptyRange == "empty range for randrange()"
MsgApi == "API request failed"

\* find_longitude_and_latitude: the coordinate, or ValueError when the
\* geocoder found nothing
find_longitude_and_latitude(location_data) ==
    IF location_data # None
    THEN [exc |-> NoException, value |-> location_data]
    ELSE [exc |-> ValueError(MsgLocationNotFound, 58), value |-> None]

\* ---------------------------------------------------------- distance matrix
\* get_distance_matrix(api_key, start_location, end_location, units): the
\* parameters as bound from three positional arguments
DistanceMatrixCall(a1, a2, a3) ==
    [api_key |-> a1, start_location |-> a2, end_location |-> a3]

\* the result dictionary get_distance_matrix builds; the service answers
\* with the addresses it was asked about
get_distance_matrix(req, d) ==
    [k \in {"start_location", "end_location", "distance_text",
            "distance_value", "duration_text", "duration_value"} |->
        CASE k = "start_location" -> req.start_location
          [] k = "end_location" -> req.end_location
          [] k = "duration_value" -> d
          [] k = "distance_value" -> d
          [] OTHER -> "text"]

\* a result dictionary that carries the key plan_route reads ("duration"):
\* what a substitute for get_distance_matrix has to return for plan_route to
\* get past line 110
DistanceMatrixWithDuration(req, d) ==
    [k \in {"start_location", "end_location", "duration"} |->
        CASE k = "start_location" -> req.start_location
          [] k = "end_location" -> req.end_location
          [] OTHER -> d]

\* the duration the distance matrix reported for the trip, under either key
DirectDuration(m) ==
    IF "duration" \in DOMAIN m THEN m["duration"] ELSE m["duration_value"]

NoMatrix == [k \in {"start_location", "end_location"} |-> ""]

\* ------------------------------------------------------------------ places
Place(a) == [formatted_address |-> a]
NoPlace == Place("")

RECURSIVE PlaceLists(_)
PlaceLists(n) ==
    IF n = 0 THEN {<<>>}
    ELSE PlaceLists(n - 1)
         \cup {Append(s, Place(a)) : s \in {t \in PlaceLists(n - 1) : Len(t) = n - 1},
                                     a \in Addresses}

\* list.pop(i) with a 0-based index: the list without that element
pop(list, i) ==
    [j \in 1..(Len(list) - 1) |-> IF j <= i THEN list[j] ELSE list[j + 1]]

\* randint(a, b): the integers it can return; none when the range is empty
randint(a, b) == a..b

Route(d) == [duration_seconds |-> d]
NoRoute == Route(0)
NoLatLong == <<0, 0>>

Min(a, b) == IF a <= b THEN a ELSE b

VARIABLES
    pc,                         \* the statement plan_route is at
    duration,                   \* parameter
    dm_request,                 \* parameters get_distance_matrix was called with
    start_to_end_distance_matrix,
    start_latlong,
    end_latlong,
    remaining_duration,
    intermediate_latlongs,
    nearby_places,
    selected_place,
    selected_latlong,
    route_to_selection,
    route_to_end,
    total_route_information,    \* the value returned, when pc = "done"
    raised,                     \* the exception that left plan_route
    resolved_start,             \* history: the coordinate line 104 returned
    search_count,               \* history: nearby searches issued (saturating)
    last_search_len,            \* history: length of the list the latest search returned, -1 before
    final_calls,                \* history: compute_route calls with intermediates
    search_request,             \* history: arguments of the latest nearby search
    spent,                      \* history: sum of route_to_selection over acceptances
    acceptances                 \* history: number of acceptances

vars ==
    <<pc, duration, dm_request, start_to_end_distance_matrix, start_latlong,
      end_latlong, remaining_duration, intermediate_latlongs, nearby_places,
      selected_place, selected_latlong, route_to_selection, route_to_end,
      total_route_information, raised, resolved_start, search_count,
      last_search_len, final_calls, search_request, spent, acceptances>>

locals ==
    <<start_to_end_distance_matrix, start_latlong, end_latlong,
      remaining_duration, intermediate_latlongs, nearby_places,
      selected_place, selected_latlong, route_to_selection, route_to_end>>

budget_history == <<spent, acceptances>>

history ==
    <<resolved_start, search_count, last_search_len, final_calls,
      search_request, budget_history>>

\* search_nearby_places(api_key, latlong, radius) as line 116 to 120 call it
\* with the current position and the remaining duration
SearchCall_PerMinute(key, latlong, remaining) ==
    [api_key |-> key, latlong |-> latlong,
     radius |-> (remaining \div 60) * CONVERSION_FACTOR_MINUTES_TO_METERS]

SearchCall(key, latlong, remaining) ==
    [api_key |-> key, latlong |-> latlong,
     radius |-> remaining * CONVERSION_FACTOR_MINUTES_TO_METERS]

\* plan_route is entered; no local name is bound yet (placeholders)
Init ==
    /\ pc = "distance_matrix"
    /\ duration \in Durations
    /\ dm_request = DistanceMatrixCall("", "", "")
    /\ start_to_end_distance_matrix = NoMatrix
    /\ start_latlong = NoLatLong
    /\ end_latlong = NoLatLong
    /\ remaining_duration = 0
    /\ intermediate_latlongs = <<>>
    /\ nearby_places = <<>>
    /\ selected_place = NoPlace
    /\ selected_latlong = NoLatLong
    /\ route_to_selection = NoRoute
    /\ route_to_end = NoRoute
    /\ total_route_information = NoRoute
    /\ raised = NoException
    /\ resolved_start = NoLatLong
    /\ search_count = 0
    /\ last_search_len = -1
    /\ final_calls = <<>>
    /\ search_request = SearchCall("", NoLatLong, 0)
    /\ spent = 0
    /\ acceptances = 0

\* an exception leaves plan_route
Propagate(e) ==
    /\ pc' = "done"
    /\ raised' = e


\* the direct call returns: unwind to the caller with the value
Return(v) ==
    /\ pc' = "done"
    /\ total_route_information' = v
    /\ raised' = NoException

\* ------------------------------------------------------ lines 103 to 111
\* line 103: get_distance_matrix(start, end, API_KEY), three positional
\* arguments.  The HTTP request fails (ValueError) or a dictionary comes back:
\* the one google_maps.get_distance_matrix builds, or one with a "duration"
\* key when the name is bound to a substitute.
GetDistanceMatrix ==
    /\ pc = "distance_matrix"
    /\ dm_request' = DistanceMatrixCall(start, end, API_KEY)
    /\ \/ /\ Propagate(ValueError(MsgApi, 69))
          /\ UNCHANGED start_to_end_distance_matrix
       \/ /\ \E d \in Costs :
                start_to_end_distance_matrix'
                    \in {get_distance_matrix(dm_request', d),
                         DistanceMatrixWithDuration(dm_request', d)}
          /\ pc' = "geocode_start"
          /\ UNCHANGED raised
    /\ UNCHANGED <<duration, start_latlong, end_latlong, remaining_duration,
                   intermediate_latlongs, nearby_places, selected_place,
                   selected_latlong, route_to_selection, route_to_end,
                   total_route_information, history>>

\* line 104
GeocodeStart ==
    /\ pc = "geocode_start"
    /\ \E location_data \in geocode(start_to_end_distance_matrix["start_location"]) :
          LET r == find_longitude_and_latitude(location_data)
          IN  IF r.exc = NoException
              THEN /\ start_latlong' = r.value
                   /\ resolved_start' = r.value
                   /\ pc' = "geocode_end"
                   /\ UNCHANGED raised
              ELSE /\ Propagate(r.exc)
                   /\ UNCHANGED <<start_latlong, resolved_start>>
    /\ UNCHANGED <<duration, dm_request, start_to_end_distance_matrix,
                   end_latlong, remaining_duration, intermediate_latlongs,
                   nearby_places, selected_place, selected_latlong,
                   route_to_selection, route_to_end, total_route_information,
                   search_count, last_search_len, final_calls,
                   search_request, budget_history>>

\* lines 105 to 107
GeocodeEnd ==
    /\ pc = "geocode_end"
    /\ \E location_data \in geocode(start_to_end_distance_matrix["end_location"]) :
          LET r == find_longitude_and_latitude(location_data)
          IN  IF r.exc = NoException
              THEN /\ end_latlong' = r.value
                   /\ remaining_duration' = duration
                   /\ intermediate_latlongs' = <<>>
                   /\ pc' = "precheck"
                   /\ UNCHANGED raised
              ELSE /\ Propagate(r.exc)
                   /\ UNCHANGED <<end_latlong, remaining_duration,
                                  intermediate_latlongs>>
    /\ UNCHANGED <<duration, dm_request, start_to_end_distance_matrix,
                   start_latlong, nearby_places, selected_place,
                   selected_latlong, route_to_selection, route_to_end,
                   total_route_information, history>>

\* line 110: start_to_end_distance_matrix["duration"] > duration
Unreachable(m, requested) == m["duration"] > requested

\* lines 110 and 111; the subscript raises KeyError when the dictionary has
\* no "duration" key
PreCheck ==
    /\ pc = "precheck"
    /\ IF "duration" \notin DOMAIN start_to_end_distance_matrix
       THEN Propagate(KeyError("duration", 110))
       ELSE IF Unreachable(start_to_end_distance_matrix, duration)
            THEN Propagate(ValueError(MsgUnreachable, 111))
            ELSE /\ pc' = "while"
                 /\ UNCHANGED raised
    /\ UNCHANGED <<duration, dm_request, locals, total_route_information,
                   history>>

\* ------------------------------------------------------ lines 114 to 145
\* lines 114 to 120: the while test, then the nearby search from
\* start_latlong; the search fails, or returns a list of places
SearchNearbyPlaces ==
    /\ pc = "while"
    /\ IF remaining_duration > 0
       THEN /\ search_count' = Min(search_count + 1, MaxCount)
            /\ search_request' = SearchCall(API_KEY, start_latlong, remaining_duration)
            /\ \/ /\ Propagate(ValueError(MsgApi, 166))
                  /\ UNCHANGED <<nearby_places, last_search_len>>
               \/ /\ nearby_places' \in PlaceLists(MaxPlaces)
                  /\ last_search_len' = Len(nearby_places')
                  /\ pc' = "select"
                  /\ UNCHANGED raised
       ELSE /\ pc' = "postloop"
            /\ UNCHANGED <<nearby_places, search_count, last_search_len,
                           search_request, raised>>
    /\ UNCHANGED <<duration, dm_request, start_to_end_distance_matrix,
                   start_latlong, end_latlong, remaining_duration,
                   intermediate_latlongs, selected_place, selected_latlong,
                   route_to_selection, route_to_end, total_route_information,
                   resolved_start, final_calls, budget_history>>

\* line 126: except IndexError
Caught(e) == e.type = "IndexError"

\* lines 123 to 127: an exception inside the try either breaks the loop or
\* leaves plan_route
Except(e) ==
    IF Caught(e)
    THEN /\ pc' = "postloop"
         /\ UNCHANGED raised
    ELSE Propagate(e)

\* lines 123 to 127.  randint(0, -1) on an empty list raises ValueError; on a
\* non-empty list a place is popped and geocoded.
Select ==
    /\ pc = "select"
    /\ IF randint(0, Len(nearby_places) - 1) = {}
       THEN /\ Except(ValueError(MsgEmptyRange, 124))
            /\ UNCHANGED <<nearby_places, selected_place, selected_latlong>>
       ELSE \E i \in randint(0, Len(nearby_places) - 1) :
               /\ selected_place' = nearby_places[i + 1]
               /\ nearby_places' = pop(nearby_places, i)
               /\ \E location_data \in geocode(selected_place'.formatted_address) :
                     LET r == find_longitude_and_latitude(location_data)
                     IN  IF r.exc = NoException
                         THEN /\ selected_latlong' = r.value
                              /\ pc' = "routes"
                              /\ UNCHANGED raised
                         ELSE /\ Except(r.exc)
                              /\ UNCHANGED selected_latlong
    /\ UNCHANGED <<duration, dm_request, start_to_end_distance_matrix,
                   start_latlong, end_latlong, remaining_duration,
                   intermediate_latlongs, route_to_selection, route_to_end,
                   total_route_information, history>>

\* lines 130 and 131: compute_route(API_KEY, start_latlong, selected_latlong)
\* and compute_route(API_KEY, selected_latlong, end_latlong); either fails,
\* or both return a route
ComputeRoutes ==
    /\ pc = "routes"
    /\ \/ /\ Propagate(ValueError(MsgApi, 301))
          /\ UNCHANGED <<route_to_selection, route_to_end>>
       \/ /\ \E d1 \in Costs, d2 \in Costs :
                /\ route_to_selection' = Route(d1)
                /\ route_to_end' = Route(d2)
          /\ pc' = "feasible"
          /\ UNCHANGED raised
    /\ UNCHANGED <<duration, dm_request, start_to_end_distance_matrix,
                   start_latlong, end_latlong, remaining_duration,
                   intermediate_latlongs, nearby_places, selected_place,
                   selected_latlong, total_route_information, history>>

\* mutants of the feasibility test: strict comparison; the leg to the
\* candidate left out
Feasible_Strict(to_selection, to_end, remaining) ==
    to_selection.duration_seconds + to_end.duration_seconds < remaining

Feasible_ToEndOnly(to_selection, to_end, remaining) ==
    to_end.duration_seconds <= remaining

\* lines 133 to 136
Feasible(to_selection, to_end, remaining) ==
    to_selection.duration_seconds + to_end.duration_seconds <= remaining

\* mutant of the charge: both legs are charged
Spend_RoundTrip(remaining, to_selection) ==
    remaining - to_selection.duration_seconds - route_to_end.duration_seconds

\* line 138
Spend(remaining, to_selection) == remaining - to_selection.duration_seconds

\* mutant of the cap test: one waypoint too late
CapReached_Late(latlongs) == Len(latlongs) > MaxWaypoints

\* line 142
CapReached(latlongs) == Len(latlongs) = MaxWaypoints

\* lines 137 to 143: spend the leg, append, move, break at the cap
Acceptance ==
    /\ remaining_duration' = Spend(remaining_duration, route_to_selection)
    /\ intermediate_latlongs' = Append(intermediate_latlongs, selected_latlong)
    /\ start_latlong' = selected_latlong
    /\ pc' = IF CapReached(intermediate_latlongs') THEN "postloop" ELSE "while"
    /\ spent' = spent + route_to_selection.duration_seconds
    /\ acceptances' = acceptances + 1

\* mutant of the rejection: the leg is charged although the place is dropped
Rejection_Charged ==
    /\ pc' = "while"
    /\ remaining_duration' = Spend(remaining_duration, route_to_selection)
    /\ UNCHANGED <<intermediate_latlongs, start_latlong, budget_history>>

\* lines 144 and 145: continue
Rejection ==
    /\ pc' = "while"
    /\ UNCHANGED <<remaining_duration, intermediate_latlongs, start_latlong,
                   budget_history>>

\* lines 133 to 145: accept (and break at the cap) or continue
FeasibilityCheck ==
    /\ pc = "feasible"
    /\ IF Feasible(route_to_selection, route_to_end, remaining_duration)
       THEN Acceptance
       ELSE Rejection
    /\ UNCHANGED <<duration, dm_request, start_to_end_distance_matrix,
                   end_latlong, nearby_places, selected_place, selected_latlong,
                   route_to_selection, route_to_end, total_route_information,
                   raised, resolved_start, search_count, last_search_len,
                   final_calls, search_request>>

\* ------------------------------------------------------ lines 147 to 155
\* mutant of the post-loop test: the empty list is let through
NoWaypoints_Skipped(latlongs) == Len(latlongs) < 0

\* line 147
NoWaypoints(latlongs) == Len(latlongs) = 0

\* lines 147 and 148
PostLoop ==
    /\ pc = "postloop"
    /\ IF NoWaypoints(intermediate_latlongs)
       THEN Propagate(ValueError(MsgNoNearby, 148))
       ELSE /\ pc' = "final"
            /\ UNCHANGED raised
    /\ UNCHANGED <<duration, dm_request, locals, total_route_information,
                   history>>

\* lines 151 to 153: the arguments of the last compute_route call
FinalCall ==
    [origin |-> start_latlong, destination |-> end_latlong,
     intermediates |-> intermediate_latlongs]

\* lines 151 to 155
FinalRoute ==
    /\ pc = "final"
    /\ final_calls' = Append(final_calls, FinalCall)
    /\ \/ /\ Propagate(ValueError(MsgApi, 301))
          /\ UNCHANGED total_route_information
       \/ \E d \in Costs : Return(Route(d))
    /\ UNCHANGED <<duration, dm_request, locals, resolved_start, search_count,
                   last_search_len, search_request, budget_history>>

Next ==
    \/ GetDistanceMatrix
    \/ GeocodeStart
    \/ GeocodeEnd
    \/ PreCheck
    \/ SearchNearbyPlaces
    \/ Select
    \/ ComputeRoutes
    \/ FeasibilityCheck
    \/ PostLoop
    \/ FinalRoute

Spec == Init /\ [][Next]_vars

\* plan_route is straight-line blocking code: a statement that can run, runs
FairSpec == Spec /\ WF_vars(Next)


\* ------------------------------------------------------------ shorthands
Returned == pc = "done" /\ raised = NoException
CheckedSum == route_to_selection.duration_seconds + route_to_end.duration_seconds
Waypoints == Len(intermediate_latlongs)

\* C1: a candidate that reaches the feasibility check is appended to the
\* waypoint list if and only if route_to_selection + route_to_end fits the
\* remaining duration as it is at the check; nothing else appends.
C1_AcceptIffFeasible ==
    [][/\ pc = "feasible" =>
            ((intermediate_latlongs' = Append(intermediate_latlongs, selected_latlong))
                <=> (CheckedSum <= remaining_duration))
       /\ intermediate_latlongs' # intermediate_latlongs => pc = "feasible"]_vars

\* a candidate is about to be rejected after an earlier one was accepted
C1_Witness ==
    /\ pc = "feasible"
    /\ Waypoints >= 1
    /\ CheckedSum > remaining_duration

\* C2: with a non-negative requested duration (route durations are never
\* negative here) remaining_duration is never negative, before, in and
\* after the loop.
C2_RemainingNonNegative == duration >= 0 => remaining_duration >= 0

\* the budget was spent down to nothing by accepted waypoints
C2_Witness ==
    /\ Waypoints >= 2
    /\ duration = MaxDuration
    /\ remaining_duration = 0

\* C3: the list of accepted waypoints never has more than 8 entries.
C3_AtMostEightWaypoints == Waypoints <= MaxWaypoints

\* the eighth waypoint was accepted with budget left
C3_Witness == Waypoints = MaxWaypoints /\ remaining_duration > 0

\* C4: every plan_route execution terminates (returns or raises), also when
\* every candidate of every search is infeasible.
C4_Terminates == <>(pc = "done")

\* plan_route got as far as the pre-check of line 110
PreCheckReached == pc = "done" /\ raised.line \notin {69, 58}

\* C5: when the distance matrix reports a direct duration above the requested
\* one, plan_route raises ValueError "Ending location not reachable within
\* the specified duration." and no nearby search was made.
C5_UnreachableRaised ==
    (PreCheckReached
        /\ DirectDuration(start_to_end_distance_matrix) > duration)
    => (raised = ValueError(MsgUnreachable, 111) /\ search_count = 0)

\* C6: a returned result comes from exactly one final compute_route call,
\* from the start coordinate resolved at line 104 to the end coordinate, with
\* the accepted waypoints in order as intermediates.
C6_FinalCallFromStart ==
    Returned
    => (final_calls = <<[origin |-> resolved_start,
                         destination |-> end_latlong,
                         intermediates |-> intermediate_latlongs]>>)

\* C7: the pre-check passed and the first nearby search returned an empty
\* list: plan_route raises ValueError "No nearby places found within the
\* specified duration." and makes no final compute_route call.
C7_EmptyFirstSearch ==
    (pc = "done" /\ search_count = 1 /\ last_search_len = 0)
    => (raised = ValueError(MsgNoNearby, 148) /\ final_calls = <<>>)

\* C8: a nearby search that returns an empty list after a waypoint was
\* accepted ends the loop without an exception, and the final compute_route
\* call is made.
C8_EmptyLaterSearch ==
    (pc = "done" /\ last_search_len = 0 /\ Waypoints >= 1)
    => (Len(final_calls) = 1 /\ raised.line \notin {124, 58})

\* C9: a geocoding failure for a selected candidate (line 125, after a
\* nearby search) never leaves plan_route.
C9_GeocodeFailureContained ==
    ~(pc = "done" /\ search_count >= 1
        /\ raised = ValueError(MsgLocationNotFound, 58))

SearchIssued ==
    /\ pc = "while"
    /\ \/ pc' = "select"
       \/ pc' = "done" /\ raised' = ValueError(MsgApi, 166)

\* the pick before this pass through the while test was rejected: a search
\* was made, and either nothing was ever accepted or the place picked last is
\* not where the journey stands
LastPickRejected ==
    /\ pc = "while"
    /\ search_count >= 1
    /\ Waypoints = 0 \/ start_latlong # selected_latlong

\* this step rejects / accepts the candidate at the feasibility check
Rejects == pc = "feasible" /\ CheckedSum > remaining_duration
Accepts == pc = "feasible" /\ CheckedSum <= remaining_duration

\* this step appends a waypoint (an acceptance, seen by its effect)
Appends == Waypoints' = Waypoints + 1

\* where the journey stands: the start resolved at line 104, then the
\* waypoint accepted last
CurrentPosition ==
    IF Waypoints = 0 THEN resolved_start ELSE intermediate_latlongs[Waypoints]

\* remaining_duration is bound (line 106 has run)
BudgetBound ==
    /\ pc \notin {"distance_matrix", "geocode_start", "geocode_end"}
    /\ ~(pc = "done" /\ search_count = 0 /\ raised.line \in {69, 58})

\* C12: after a rejection no new nearby search is issued while candidates of
\* the current search result are still untried.
C12_NoRequeryWhileCandidatesRemain ==
    [][(LastPickRejected /\ nearby_places # <<>>) => ~SearchIssued]_vars

\* C13: rejecting a candidate leaves remaining_duration, the waypoint list
\* and the current position unchanged.
C13_RejectionChangesNothing ==
    [][Rejects => UNCHANGED <<remaining_duration, intermediate_latlongs,
                              start_latlong>>]_vars

\* a candidate was rejected after another was accepted and part of the
\* budget spent
C13_Witness ==
    /\ pc = "while"
    /\ Waypoints >= 1
    /\ spent >= 1
    /\ start_latlong # selected_latlong
    /\ CheckedSum > remaining_duration

\* C14: accepting a candidate takes exactly route_to_selection (not both
\* legs) off remaining_duration, appends the candidate's coordinate after the
\* earlier waypoints, makes it the current position and leaves the end
\* coordinate alone.
C14_AcceptanceEffect ==
    [][Accepts =>
        /\ remaining_duration'
              = remaining_duration - route_to_selection.duration_seconds
        /\ intermediate_latlongs'
              = Append(intermediate_latlongs, selected_latlong)
        /\ start_latlong' = selected_latlong
        /\ end_latlong' = end_latlong]_vars

\* a second waypoint was accepted with both legs costing something
C14_Witness ==
    /\ pc = "while"
    /\ Waypoints = 2
    /\ intermediate_latlongs[1] # intermediate_latlongs[2]
    /\ start_latlong = selected_latlong
    /\ route_to_selection.duration_seconds >= 1
    /\ route_to_end.duration_seconds >= 1
    /\ remaining_duration = duration - spent

\* C15: right after an acceptance remaining_duration is at least the
\* route_to_end duration of that candidate's feasibility check.
C15_EnoughLeftToFinish ==
    [][Appends => remaining_duration' >= route_to_end.duration_seconds]_vars

\* an acceptance left exactly the duration of the leg to the end
C15_Witness ==
    /\ pc = "while"
    /\ Waypoints >= 1
    /\ start_latlong = selected_latlong
    /\ route_to_selection.duration_seconds >= 1
    /\ route_to_end.duration_seconds >= 1
    /\ remaining_duration = route_to_end.duration_seconds
    /\ remaining_duration = duration - spent

\* C16: with the eighth waypoint accepted the loop is over whatever budget
\* remains: no further search, selection or feasibility routes, and the next
\* call is the final compute_route.
C16_CapEndsLoop ==
    [][/\ Waypoints' = MaxWaypoints => pc' \in {"postloop", "final", "done"}
       /\ Waypoints = MaxWaypoints =>
            /\ UNCHANGED <<nearby_places, selected_place, selected_latlong,
                           route_to_selection, route_to_end, search_request,
                           search_count, last_search_len>>
            /\ pc = "postloop" => pc' = "final"
            /\ pc = "final" => final_calls' = <<FinalCall>>]_vars

\* the final call was made for eight waypoints with budget left
C16_Witness ==
    /\ pc = "done"
    /\ Waypoints = MaxWaypoints
    /\ remaining_duration > 0
    /\ Len(final_calls) = 1

C18_BudgetConservation ==
    [][/\ BudgetBound' =>
            /\ remaining_duration' = duration - spent'
            /\ Waypoints' = acceptances'
       /\ BudgetBound => remaining_duration' <= remaining_duration]_vars

\* two acceptances spent the whole budget
C18_Witness ==
    /\ pc = "postloop"
    /\ acceptances = 2
    /\ spent = duration
    /\ duration = MaxDuration
    /\ remaining_duration = 0

\* C19: at every acceptance, and so when the loop ends with a waypoint, the
\* accepted legs plus the leg from the waypoint accepted last to the end fit
\* the requested duration.
C19_JourneyFitsBudget ==
    [][/\ Appends => spent' + route_to_end.duration_seconds <= duration
       /\ (pc' = "postloop" /\ Waypoints' >= 1)
            => spent' + route_to_end'.duration_seconds <= duration]_vars

\* the loop ended at the cap with the journey filling the budget exactly
C19_Witness ==
    /\ pc = "postloop"
    /\ Waypoints = MaxWaypoints
    /\ spent >= 1
    /\ route_to_end.duration_seconds >= 1
    /\ spent + route_to_end.duration_seconds = duration

====
